---- MODULE Spec2Model ----
(***************************************************************************)
(* QuakesMap.jsx: the Map component (two filter parameters, the earthquake *)
(* collection, the fetch issued by the effect, the GeoJSON overlay) and    *)
(* the two Leaflet callbacks pointToLayer / onEachFeature.                 *)
(*                                                                         *)
(* Numbers of the feed (magnitude, depth, longitude, latitude) are kept as *)
(* integers: magnitudes and depths in tenths, coordinates in degrees.      *)
(***************************************************************************)
EXTENDS Integers, Sequences, FiniteSets, Bags, TLC

VARIABLES
    mounted,     \* the mount effect has run (useEffect's first invocation)
    minMag,      \* useState("2.5")
    timespan,    \* useState("week")
    quakesJson,  \* useState([]): the Event Collection
    pending,     \* bag of the URLs of the fetch() calls not yet settled
    overlayKey,  \* key of the mounted <GeoJSON> element
    layers,      \* the layers the mounted <GeoJSON> element built from its data
    escaped,     \* a fetchQuakeData promise rejected (unhandled rejection)
    fetches,     \* history: number of fetch() calls so far
    source,      \* history: URL whose response quakesJson holds ("" = initial [])
    last,        \* history: the step taken last
    resp,        \* history: the response the last step settled a fetch with
    respUrl,     \* history: the URL of that fetch
    prevQuakes,  \* history: quakesJson before the last step
    overwrote    \* history: the last step replaced the response to the current
                 \* filter by the response to another request

vars == <<mounted, minMag, timespan, quakesJson, pending, overlayKey, layers,
          escaped, fetches, source, last, resp, respUrl, prevQuakes, overwrote>>

---------------------------------------------------------------------------
(* Bounds of the model *)

\* fetch() calls in one run, the mount's included (the code has no limit)
MaxFetches == 3
\* features of a feed document handed to a newly mounted overlay
MaxFeatures == 3

---------------------------------------------------------------------------
(* Constants of the program *)

BASE_URL == "https://earthquake.usgs.gov/earthquakes/feed/v1.0/summary/"

Magnitudes == <<"all", "1.0", "2.5", "4.5", "significant">>

Intervals == <<"hour", "day", "week", "month">>

Range(s) == {s[i] : i \in DOMAIN s}

---------------------------------------------------------------------------
(* JavaScript values that reach a truthiness test *)

JsString(s) == [type |-> "string", val |-> s]

JsNull == [type |-> "null", val |-> "null"]

JsUndefined == [type |-> "undefined", val |-> "undefined"]

\* obj.key: undefined when the object has no such property
Get(obj, key) == IF key \in DOMAIN obj THEN obj[key] ELSE JsUndefined

\* variant: only undefined and null are falsy
Truthy_nonNull(v) == v.type = "string"

\* ToBoolean on the values above: undefined, null and "" are falsy
Truthy(v) == v.type = "string" /\ v.val # ""

---------------------------------------------------------------------------
(* The feed: features and responses *)

Geometry(lon, lat, depth) == [type |-> "Point", coordinates |-> <<lon, lat, depth>>]

Props(mag, place) ==
    [mag |-> mag, place |-> place, type |-> "earthquake", url |-> "http://x"]

\* the same properties without the place key
PropsNoPlace(mag) == [mag |-> mag, type |-> "earthquake", url |-> "http://x"]

Feature(props, geom) == [properties |-> props, geometry |-> geom]

Features ==
    { Feature(Props(42, JsString("10km N of Testville")), Geometry(-120, 35, 83)),
      Feature(Props(10, JsString("")), Geometry(15, -20, 100)),
      Feature(Props(-5, JsNull), Geometry(140, 38, 0)),
      Feature(PropsNoPlace(25), Geometry(-70, -33, 350)) }

SeqsUpTo(S, n) == UNION { [1..k -> S] : k \in 0..n }

\* feed documents a newly mounted overlay is given
Documents == SeqsUpTo(Features, MaxFeatures)

Testville == Feature(Props(42, JsString("10km N of Testville")), Geometry(-120, 35, 83))

Unplaced == Feature(PropsNoPlace(25), Geometry(-70, -33, 350))

\* feature lists the feed answers a request with
Feeds == { <<>>, <<Testville>>, <<Unplaced>>, <<Testville, Unplaced>> }

NetworkFailure ==
    [transport |-> "rejected", status |-> 0, parses |-> FALSE, features |-> <<>>]

BadStatus ==
    [transport |-> "resolved", status |-> 500, parses |-> FALSE, features |-> <<>>]

BadBody ==
    [transport |-> "resolved", status |-> 200, parses |-> FALSE, features |-> <<>>]

FeedDocument(f) ==
    [transport |-> "resolved", status |-> 200, parses |-> TRUE, features |-> f]

Failures == {NetworkFailure, BadStatus, BadBody}

Responses == Failures \cup {FeedDocument(f) : f \in Feeds}

\* Response.ok
Ok(r) == r.status >= 200 /\ r.status <= 299

---------------------------------------------------------------------------
(* Marker and popup callbacks *)

\* Leaflet's default coordsToLatLng: GeoJSON [lon, lat, alt] -> LatLng(lat, lon)
CoordsToLatLng(coords) == <<coords[2], coords[1]>>

NoPopup == [bound |-> FALSE]

\* The radius is real-valued (Math.pow, Math.sqrt, Math.PI); the marker keeps
\* the magnitude getMarkerRadius was called with.
pointToLayer(feature, latlng) ==
    [latlng |-> latlng,
     radiusOf |-> feature.properties.mag,
     color |-> "red",
     popup |-> NoPopup]

\* renderToString(<Popup {...feature} />)
Popup(properties, geometry) ==
    [bound |-> TRUE,
     title |-> properties.place.val,
     magnitude |-> properties.mag,
     depth |-> geometry.coordinates[3],
     type |-> properties.type,
     lonLat |-> <<geometry.coordinates[1], geometry.coordinates[2]>>,
     href |-> properties.url,
     target |-> "_blank"]

onEachFeature(feature, layer) ==
    IF Truthy(Get(feature.properties, "place"))
    THEN [layer EXCEPT !.popup = Popup(feature.properties, feature.geometry)]
    ELSE layer

\* What a newly mounted <GeoJSON data pointToLayer onEachFeature> builds:
\* one layer per feature, in order.
GeoJSONLayers(data) ==
    [i \in 1..Len(data) |->
        onEachFeature(data[i],
                      pointToLayer(data[i],
                                   CoordsToLatLng(data[i].geometry.coordinates)))]

\* <GeoJSON key={quakesJson.length}>: a changed key remounts the element with
\* the new data; with the same key the element is kept and its layers with it.
RenderOverlay(key, lyrs, data) ==
    IF Len(data) # key
    THEN [key |-> Len(data), layers |-> GeoJSONLayers(data)]
    ELSE [key |-> key, layers |-> lyrs]

---------------------------------------------------------------------------
(* Filters, effect and fetch *)

Url(mag, span) == BASE_URL \o "/" \o mag \o "_" \o span \o ".geojson"

\* variant: only the "all" button is disabled for the month
Disabled_allOnly(magnitude, span) == span = "month" /\ magnitude = "all"

\* the disabled prop of a magnitude button
Disabled(magnitude, span) ==
    span = "month" /\ (magnitude = "all" \/ magnitude = "1.0")

\* the time-window buttons have no disabled prop
IntervalDisabled(intervall, mag) == FALSE

\* variant: the dependency array is [minMag]
UseEffect_magOnly(oldMag, oldSpan, newMag, newSpan, pend) ==
    IF oldMag # newMag
    THEN pend (+) SetToBag({Url(newMag, newSpan)})
    ELSE pend

\* useEffect(..., [minMag, timespan]) after a render: runs when a dependency
\* changed and calls fetchQuakeData(url) once.
UseEffect(oldMag, oldSpan, newMag, newSpan, pend) ==
    IF oldMag # newMag \/ oldSpan # newSpan
    THEN pend (+) SetToBag({Url(newMag, newSpan)})
    ELSE pend

Thrown(e) == [threw |-> TRUE, error |-> e, value |-> <<>>]

Returned(v) == [threw |-> FALSE, error |-> "", value |-> v]

\* the try block of fetchQuakeData once fetch(url) has settled with r
TryBlock(url, r) ==
    IF r.transport = "rejected" THEN Thrown("network")
    ELSE IF ~Ok(r) THEN Thrown("status")
    ELSE IF ~r.parses THEN Thrown("body")
    ELSE Returned(r.features)

\* variant: the catch clause also empties the collection
fetchQuakeData_clearsOnError(url, r, quakes) ==
    LET t == TryBlock(url, r)
    IN  IF t.threw
        THEN [quakesJson |-> <<>>, applied |-> FALSE,
              logged |-> t.error, escaped |-> FALSE]
        ELSE [quakesJson |-> t.value, applied |-> TRUE,
              logged |-> "", escaped |-> FALSE]

\* variant: the new features are appended to the collection
fetchQuakeData_merges(url, r, quakes) ==
    LET t == TryBlock(url, r)
    IN  IF t.threw
        THEN [quakesJson |-> quakes, applied |-> FALSE,
              logged |-> t.error, escaped |-> FALSE]
        ELSE [quakesJson |-> quakes \o t.value, applied |-> TRUE,
              logged |-> "", escaped |-> FALSE]

\* variant: a response is applied only if its request is the current filter's
fetchQuakeData_latestOnly(url, r, quakes) ==
    LET t == TryBlock(url, r)
    IN  IF t.threw
        THEN [quakesJson |-> quakes, applied |-> FALSE,
              logged |-> t.error, escaped |-> FALSE]
        ELSE IF url # Url(minMag, timespan)
        THEN [quakesJson |-> quakes, applied |-> FALSE,
              logged |-> "", escaped |-> FALSE]
        ELSE [quakesJson |-> t.value, applied |-> TRUE,
              logged |-> "", escaped |-> FALSE]

\* fetchQuakeData from the point where fetch(url) settles: setQuakesJson on
\* the normal path, console.log in the catch clause.
fetchQuakeData(url, r, quakes) ==
    LET t == TryBlock(url, r)
    IN  IF t.threw
        THEN [quakesJson |-> quakes, applied |-> FALSE,
              logged |-> t.error, escaped |-> FALSE]
        ELSE [quakesJson |-> t.value, applied |-> TRUE,
              logged |-> "", escaped |-> FALSE]

---------------------------------------------------------------------------
(* State machine *)

NoResponse ==
    [transport |-> "none", status |-> 0, parses |-> FALSE, features |-> <<>>]

\* after the first render, before the mount effect
Init ==
    /\ mounted = FALSE
    /\ minMag = "2.5"
    /\ timespan = "week"
    /\ quakesJson = <<>>
    /\ pending = EmptyBag
    /\ overlayKey = Len(quakesJson)
    /\ layers = GeoJSONLayers(quakesJson)
    /\ escaped = FALSE
    /\ fetches = 0
    /\ source = ""
    /\ last = "render"
    /\ resp = NoResponse
    /\ respUrl = ""
    /\ prevQuakes = <<>>
    /\ overwrote = FALSE

\* variant: the mount effect runs twice
MountEffect_twice ==
    /\ ~mounted
    /\ mounted' = TRUE
    /\ pending' = pending (+) SetToBag({Url(minMag, timespan)})
                          (+) SetToBag({Url(minMag, timespan)})
    /\ fetches' = fetches + 2
    /\ last' = "mount"
    /\ prevQuakes' = quakesJson
    /\ UNCHANGED <<minMag, timespan, quakesJson, overlayKey, layers, escaped,
                   source, resp, respUrl, overwrote>>

\* the first run of the effect
MountEffect ==
    /\ ~mounted
    /\ mounted' = TRUE
    /\ pending' = pending (+) SetToBag({Url(minMag, timespan)})
    /\ fetches' = fetches + 1
    /\ last' = "mount"
    /\ prevQuakes' = quakesJson
    /\ UNCHANGED <<minMag, timespan, quakesJson, overlayKey, layers, escaped,
                   source, resp, respUrl, overwrote>>

\* what every click does besides setting its state: the re-render with the
\* unchanged quakesJson, then the effect
Click(newMag, newSpan) ==
    LET o == RenderOverlay(overlayKey, layers, quakesJson)
    IN  /\ mounted
        /\ fetches < MaxFetches
        /\ overlayKey' = o.key
        /\ layers' = o.layers
        /\ pending' = UseEffect(minMag, timespan, newMag, newSpan, pending)
        /\ fetches' = fetches + BagCardinality(pending') - BagCardinality(pending)
        /\ resp' = NoResponse
        /\ respUrl' = ""
        /\ prevQuakes' = quakesJson
        /\ overwrote' = FALSE
        /\ UNCHANGED <<mounted, quakesJson, escaped, source>>

ClickMagnitude(magnitude) ==
    /\ ~Disabled(magnitude, timespan)
    /\ minMag' = magnitude
    /\ timespan' = timespan
    /\ Click(magnitude, timespan)
    /\ last' = "magnitude"

ClickTimespan(intervall) ==
    /\ ~IntervalDisabled(intervall, minMag)
    /\ timespan' = intervall
    /\ minMag' = minMag
    /\ Click(minMag, intervall)
    /\ last' = "timespan"

\* the fetch of url settles with r and fetchQuakeData resumes
Settle(url, r) ==
    LET out == fetchQuakeData(url, r, quakesJson)
        o   == RenderOverlay(overlayKey, layers, out.quakesJson)
    IN  /\ mounted
        /\ BagIn(url, pending)
        /\ pending' = pending (-) SetToBag({url})
        /\ quakesJson' = out.quakesJson
        /\ overlayKey' = o.key
        /\ layers' = o.layers
        /\ escaped' = (escaped \/ out.escaped)
        /\ source' = IF out.applied THEN url ELSE source
        /\ last' = "settle"
        /\ resp' = r
        /\ respUrl' = url
        /\ prevQuakes' = quakesJson
        /\ overwrote' = (out.applied /\ source = Url(minMag, timespan)
                                     /\ url # Url(minMag, timespan))
        /\ UNCHANGED <<mounted, minMag, timespan, fetches>>

Next ==
    \/ MountEffect
    \/ \E magnitude \in Range(Magnitudes) : ClickMagnitude(magnitude)
    \/ \E intervall \in Range(Intervals) : ClickTimespan(intervall)
    \/ \E url \in BagToSet(pending), r \in Responses : Settle(url, r)

Spec == Init /\ [][Next]_vars

---------------------------------------------------------------------------
(* The overlay alone: a <GeoJSON> element mounted with any feed document *)

InitOverlay ==
    /\ mounted = FALSE
    /\ minMag = "2.5"
    /\ timespan = "week"
    /\ quakesJson \in Documents
    /\ pending = EmptyBag
    /\ overlayKey = Len(quakesJson)
    /\ layers = <<>>
    /\ escaped = FALSE
    /\ fetches = 0
    /\ source = ""
    /\ last = "render"
    /\ resp = NoResponse
    /\ respUrl = ""
    /\ prevQuakes = quakesJson
    /\ overwrote = FALSE

\* the element mounts: Leaflet builds one layer per feature of its data
MountOverlay ==
    /\ last = "render"
    /\ layers' = GeoJSONLayers(quakesJson)
    /\ last' = "overlay"
    /\ UNCHANGED <<mounted, minMag, timespan, quakesJson, pending, overlayKey,
                   escaped, fetches, source, resp, respUrl, prevQuakes, overwrote>>

NextOverlay == MountOverlay

OverlaySpec == InitOverlay /\ [][NextOverlay]_vars

---------------------------------------------------------------------------
(* Properties *)

FeedDocuments == {FeedDocument(f) : f \in Feeds}

CurrentUrl == BASE_URL \o "/" \o minMag \o "_" \o timespan \o ".geojson"

\* C1: the filter never holds window "month" together with minimum
\* magnitude "all" or "1.0".
C1_NoLowMagnitudeMonth ==
    ~(timespan = "month" /\ minMag \in {"all", "1.0"})

C3_ChangeIssuesOneFetch ==
    [][(minMag' # minMag \/ timespan' # timespan)
        => /\ pending' = pending (+) SetToBag(
                  {BASE_URL \o "/" \o minMag' \o "_" \o timespan' \o ".geojson"})
           /\ fetches' = fetches + 1]_vars

C3_Witness ==
    /\ last = "timespan"
    /\ timespan = "day"
    /\ minMag = "4.5"
    /\ fetches = 3
    /\ BagCardinality(pending) = 3
    /\ BagIn(BASE_URL \o "/4.5_day.geojson", pending)

\* C4: after a successful fetch the Event Collection is exactly the feature
\* list of the response, with nothing of the previous collection kept.
C4_SuccessReplacesCollection ==
    (last = "settle" /\ resp \in FeedDocuments) => quakesJson = resp.features

C4_Witness ==
    /\ last = "settle"
    /\ resp = FeedDocument(<<>>)
    /\ prevQuakes = <<Testville, Unplaced>>
    /\ quakesJson = <<>>

\* C5: after a successful fetch the overlay shows exactly the markers of the
\* new Event Collection.
C5_OverlayShowsCollection ==
    (last = "settle" /\ resp \in FeedDocuments)
        => layers = GeoJSONLayers(quakesJson)

\* C6: the magnitude buttons "all" and "1.0" are disabled exactly when the
\* window is "month"; no time-window button is ever disabled.
C6_DisabledExactlyForMonth ==
    /\ timespan = "month"
        => /\ Disabled("all", timespan)
           /\ Disabled("1.0", timespan)
           /\ ~Disabled("2.5", timespan)
           /\ ~Disabled("4.5", timespan)
           /\ ~Disabled("significant", timespan)
    /\ timespan \in {"hour", "day", "week"}
        => \A magnitude \in Range(Magnitudes) : ~Disabled(magnitude, timespan)
    /\ \A intervall \in Range(Intervals) : ~IntervalDisabled(intervall, minMag)

C6_Witness ==
    /\ mounted
    /\ timespan = "month"
    /\ minMag = "4.5"
    /\ last = "timespan"

\* C7: at mount the filter is ("2.5", "week"), the collection is empty and
\* exactly one fetch, for 2.5_week, is issued; afterwards only a click
\* changes the filter.
C7_MountDefaultsAndFrame ==
    /\ [](last \in {"render", "mount"}
            => minMag = "2.5" /\ timespan = "week" /\ quakesJson = <<>>)
    /\ [](last = "mount"
            => /\ fetches = 1
               /\ pending = SetToBag({BASE_URL \o "/2.5_week.geojson"}))
    /\ [][(minMag' # minMag \/ timespan' # timespan)
            => last' \in {"magnitude", "timespan"}]_vars

C7_Witness ==
    /\ last = "settle"
    /\ resp = FeedDocument(<<Testville>>)
    /\ fetches = 1
    /\ minMag = "2.5"
    /\ timespan = "week"
    /\ pending = EmptyBag

\* a place that is there: the key exists and its value is neither undefined
\* nor null
PlacePresent(feature) ==
    /\ "place" \in DOMAIN feature.properties
    /\ feature.properties.place.type = "string"

\* a place that is a non-empty string
PlaceNonEmpty(feature) ==
    /\ PlacePresent(feature)
    /\ feature.properties.place.val # ""

MarkerAt(layer, feature) ==
    /\ layer.latlng = <<feature.geometry.coordinates[2],
                        feature.geometry.coordinates[1]>>
    /\ layer.color = "red"

C10_StaleResponseApplied ==
    (last = "settle" /\ resp \in FeedDocuments /\ respUrl # CurrentUrl)
        => (quakesJson = resp.features /\ source = respUrl)

\* no fetch pending, and the response to an older request has replaced the
\* response to the current filter's request
C10_Witness ==
    /\ last = "settle"
    /\ pending = EmptyBag
    /\ overwrote
    /\ source # CurrentUrl
    /\ source = respUrl
    /\ quakesJson = resp.features
    /\ quakesJson # prevQuakes

====
